---- MODULE Spec2Model ----
(***************************************************************************)
(* Model of the Google Analytics MCP server (src/src/index.js): five tool  *)
(* handlers, each an async function that checks propertyId, builds a       *)
(* backend request inside executeWithErrorHandling, awaits one backend     *)
(* call and returns a text result.                                         *)
(*                                                                         *)
(* Representation of JavaScript values:                                    *)
(*   - a string whose characters the code inspects (error messages, the    *)
(*     search text and the descriptor fields it is matched against) is a   *)
(*     sequence of one-character strings;                                  *)
(*   - a string the code only copies, compares or tests for emptiness is   *)
(*     a TLA+ string, and a template literal is the tuple of its parts;    *)
(*   - an object is a function from its PRESENT keys to values, so         *)
(*     "key absent" is k \notin DOMAIN o;                                  *)
(*   - a possibly-undefined value inside an object literal is << >>        *)
(*     (undefined) or <<v>> (defined); JSON.stringify drops the former.    *)
(***************************************************************************)
EXTENDS Integers, Sequences, FiniteSets, TLC

\* serviceAccountEmail: credentials.client_email, read once at start-up;
\* defaultPropertyId: process.env.GA_PROPERTY_ID, << >> when the variable is unset;
\* inv: the tool invocations in progress;
\* test: the run of the connectivity script test-connection.js
VARIABLES serviceAccountEmail, defaultPropertyId, inv, test

vars == <<serviceAccountEmail, defaultPropertyId, inv, test>>

----------------------------------------------------------------------------
(* JavaScript helpers *)

Has(o, k) == k \in DOMAIN o

\* an optional argument k: absent, or present with a value of S
Opt(k, S) == {<<>>} \cup {[y \in {k} |-> v] : v \in S}

\* String.prototype.includes
Includes(s, sub) ==
  \E k \in 0..(Len(s) - Len(sub)) : SubSeq(s, k + 1, k + Len(sub)) = sub

\* variant: only undefined is falsy, "" passes
TruthyIfSet(o, k) == Has(o, k)

\* truthiness of a string: undefined (key absent) and "" are falsy
Truthy(o, k) == Has(o, k) /\ o[k] # ""

\* variant: a name already listed is skipped
WrapNamesOnce(names) ==
  LET kept == {k \in 1..Len(names) : \A j \in 1..(k - 1) : names[j] # names[k]}
      Pick(n) == CHOOSE k \in kept : Cardinality({j \in kept : j <= k}) = n
  IN [n \in 1..Cardinality(kept) |-> [name |-> names[Pick(n)]]]

\* Array.prototype.map(name => ({ name }))
WrapNames(names) == [k \in 1..Len(names) |-> [name |-> names[k]]]

\* JSON.stringify of an object literal: keys whose value is undefined are dropped
JSONstringify(o) == [k \in {j \in DOMAIN o : o[j] # <<>>} |-> o[k][1]]

\* { content: [{ type: 'text', text }] }
TextResult(t) == [content |-> <<[type |-> "text", text |-> t]>>]

\* the marker of error.message?.includes('permission')
PermissionMarker == <<"p","e","r","m","i","s","s","i","o","n">>

\* the template literal `properties/${targetPropertyId}`
PropertyPath(id) == <<"properties/", id>>

\* the template literal `properties/${targetPropertyId}/metadata`
MetadataName(id) == <<"properties/", id, "/metadata">>

----------------------------------------------------------------------------
(* executeWithErrorHandling *)

\* if (!propertyId) return {...}: the guidance payload, written out in each handler
PropertyIdRequired(tool) ==
  CASE tool = "analytics_report" ->
         TextResult(JSONstringify(
           [error |-> <<"Property ID is required. Please specify a propertyId parameter.">>,
            example |-> <<"propertyId: \"123456789\"">>,
            instruction |->
              <<"Please provide the Google Analytics 4 property ID you want to query.">>]))
    [] tool = "realtime_data" ->
         TextResult(JSONstringify(
           [error |-> <<"Property ID is required. Please specify a propertyId parameter.">>,
            example |-> <<"propertyId: \"123456789\"">>,
            instruction |->
              <<"Please provide the Google Analytics 4 property ID you want to query.">>]))
    [] tool = "quick_insights" ->
         TextResult(JSONstringify(
           [error |-> <<"Property ID is required. Please specify a propertyId parameter.">>,
            example |-> <<"propertyId: \"123456789\"">>,
            instruction |->
              <<"Please provide the Google Analytics 4 property ID you want to query.">>]))
    [] tool = "get_metadata" ->
         TextResult(JSONstringify(
           [error |-> <<"Property ID is required. Please specify a propertyId parameter.">>,
            example |-> <<"propertyId: \"123456789\"">>,
            instruction |->
              <<"Please provide the Google Analytics 4 property ID you want to query.">>]))
    [] tool = "search_metadata" ->
         TextResult(JSONstringify(
           [error |-> <<"Property ID is required. Please specify a propertyId parameter.">>,
            example |-> <<"propertyId: \"123456789\"">>,
            instruction |->
              <<"Please provide the Google Analytics 4 property ID you want to query.">>]))

\* variant: only the status code is looked at
IsPermissionErrorByCode(error) == Has(error, "code") /\ error.code = 7

\* error.code === 7 || error.message?.includes('permission')
IsPermissionError(error) ==
  \/ (Has(error, "code") /\ error.code = 7)
  \/ (Has(error, "message") /\ Includes(error.message, PermissionMarker))

\* error.message as a value of an object literal (undefined when absent)
MessageOf(error) == IF Has(error, "message") THEN <<error.message>> ELSE <<>>

PermissionDenied(error, propertyId, email) ==
  TextResult(JSONstringify(
    [error |-> <<"Permission denied for this Google Analytics property">>,
     propertyId |-> <<propertyId>>,
     solution |-> << <<"Please grant access to the service account: ", email>> >>,
     steps |-> << << <<"1. Go to Google Analytics (analytics.google.com)">>,
                     <<"2. Navigate to Admin > Property Access Management">>,
                     <<"3. Add ", email, " with Viewer access">>,
                     <<"4. Try the query again">> >> >>,
     originalError |-> MessageOf(error)]))

GenericFailure(error, propertyId) ==
  TextResult(JSONstringify(
    [error |-> <<"Failed to fetch analytics data">>,
     message |-> MessageOf(error),
     propertyId |-> <<propertyId>>]))

\* the catch block: the classified payload for a thrown error
Classify(error, propertyId, email) ==
  IF IsPermissionError(error)
  THEN PermissionDenied(error, propertyId, email)
  ELSE GenericFailure(error, propertyId)

\* variant: only permission errors are caught, any other error is rethrown
ExecuteRethrowing(fnOutcome, propertyId, email) ==
  IF fnOutcome.kind = "return" \/ ~IsPermissionError(fnOutcome.error)
  THEN fnOutcome
  ELSE [kind |-> "return",
        value |-> PermissionDenied(fnOutcome.error, propertyId, email)]

\* try { return await fn() } catch (error) { ... }: fnOutcome is what fn() did,
\* [kind |-> "return", value |-> r] or [kind |-> "throw", error |-> e]
ExecuteWithErrorHandling(fnOutcome, propertyId, email) ==
  IF fnOutcome.kind = "return"
  THEN fnOutcome
  ELSE [kind |-> "return", value |-> Classify(fnOutcome.error, propertyId, email)]

----------------------------------------------------------------------------
(* input schemas: the defaults zod applies before the handler runs *)

\* a destructuring default (limit = 100) or a zod .default(): d when k is undefined
Default(args, k, d) == IF Has(args, k) THEN args[k] ELSE d

\* variant: an unset desc is ascending
ParseOrderByAscending(orderBy) == orderBy @@ [desc |-> FALSE]

\* orderBy: z.object({ dimension?, metric?, desc: z.boolean().optional().default(true) })
ParseOrderBy(orderBy) == orderBy @@ [desc |-> TRUE]

\* the enum of quick_insights' reportType
ReportTypes ==
  {"overview", "top_pages", "traffic_sources", "geographic", "user_demographics",
   "conversions", "us_states", "engagement_metrics", "ecommerce_overview",
   "device_technology"}

\* the enum of get_metadata's and search_metadata's type
MetadataTypes == {"dimensions", "metrics", "both"}

----------------------------------------------------------------------------
(* analytics_report: the request built inside the wrapped function *)

AnalyticsLimitDefault == 100
RealtimeLimitDefault == 50
QuickLimitDefault == 20

\* variant: two independent ifs, a rule for each named field
OrderBysEach(args) ==
  IF ~Has(args, "orderBy") THEN <<>>
  ELSE LET orderBy == ParseOrderBy(args.orderBy)
           m == IF Truthy(orderBy, "metric")
                THEN <<[metric |-> [metricName |-> orderBy.metric], desc |-> orderBy.desc]>>
                ELSE <<>>
           d == IF Truthy(orderBy, "dimension")
                THEN <<[dimension |-> [dimensionName |-> orderBy.dimension],
                        desc |-> orderBy.desc]>>
                ELSE <<>>
       IN IF m \o d = <<>> THEN <<>> ELSE [orderBys |-> m \o d]

\* if (orderBy) { if (orderBy.metric) ... else if (orderBy.dimension) ... }
OrderBys(args) ==
  IF ~Has(args, "orderBy") THEN <<>>
  ELSE LET orderBy == ParseOrderBy(args.orderBy) IN
       IF Truthy(orderBy, "metric")
       THEN [orderBys |-> <<[metric |-> [metricName |-> orderBy.metric], desc |-> orderBy.desc]>>]
       ELSE IF Truthy(orderBy, "dimension")
       THEN [orderBys |-> <<[dimension |-> [dimensionName |-> orderBy.dimension],
                             desc |-> orderBy.desc]>>]
       ELSE <<>>

\* variant: an empty filter object is treated as unset
DimensionFilterIfNonEmpty(args) ==
  IF Has(args, "dimensionFilter") /\ DOMAIN args.dimensionFilter # {}
  THEN [dimensionFilter |-> args.dimensionFilter] ELSE <<>>

\* if (dimensionFilter) reportRequest.dimensionFilter = dimensionFilter (an object is truthy)
DimensionFilterOf(args) ==
  IF Has(args, "dimensionFilter") THEN [dimensionFilter |-> args.dimensionFilter] ELSE <<>>

MetricFilterOf(args) ==
  IF Has(args, "metricFilter") THEN [metricFilter |-> args.metricFilter] ELSE <<>>

\* variant: limit || 100, a supplied 0 is replaced by the default
ReportRequestFalsyLimit(args) ==
  [property |-> PropertyPath(args.propertyId),
   dateRanges |-> <<[startDate |-> args.startDate, endDate |-> args.endDate]>>,
   dimensions |-> WrapNames(Default(args, "dimensions", <<>>)),
   metrics |-> WrapNames(args.metrics),
   limit |-> IF Has(args, "limit") /\ args.limit # 0 THEN args.limit
             ELSE AnalyticsLimitDefault]
  @@ DimensionFilterOf(args) @@ MetricFilterOf(args) @@ OrderBys(args)

ReportRequest(args) ==
  [property |-> PropertyPath(args.propertyId),
   dateRanges |-> <<[startDate |-> args.startDate, endDate |-> args.endDate]>>,
   dimensions |-> WrapNames(Default(args, "dimensions", <<>>)),
   metrics |-> WrapNames(args.metrics),
   limit |-> Default(args, "limit", AnalyticsLimitDefault)]
  @@ DimensionFilterOf(args) @@ MetricFilterOf(args) @@ OrderBys(args)

\* what the wrapped function of analytics_report does up to its await
\* variant: the request of an analytics_report still in flight is sent again
AnalyticsBeginReusing(args) ==
  [kind |-> "call", api |-> "runReport",
   request |-> IF inv[1].pc = "awaiting" /\ inv[1].tool = "analytics_report"
               THEN inv[1].calls[1].request
               ELSE ReportRequest(args)]

AnalyticsBegin(args) ==
  [kind |-> "call", api |-> "runReport", request |-> ReportRequest(args)]

----------------------------------------------------------------------------
(* realtime_data *)

\* variant: the realtime request is given a date range like the aggregated one
RealtimeRequestDated(args) ==
  [property |-> PropertyPath(args.propertyId),
   dateRanges |-> <<[startDate |-> "today", endDate |-> "today"]>>,
   dimensions |-> WrapNames(Default(args, "dimensions", <<>>)),
   metrics |-> WrapNames(Default(args, "metrics", <<"activeUsers">>)),
   limit |-> Default(args, "limit", RealtimeLimitDefault)]

RealtimeRequest(args) ==
  [property |-> PropertyPath(args.propertyId),
   dimensions |-> WrapNames(Default(args, "dimensions", <<>>)),
   metrics |-> WrapNames(Default(args, "metrics", <<"activeUsers">>)),
   limit |-> Default(args, "limit", RealtimeLimitDefault)]

RealtimeBegin(args) ==
  [kind |-> "call", api |-> "runRealtimeReport", request |-> RealtimeRequest(args)]

----------------------------------------------------------------------------
(* quick_insights: the preset catalog and the request *)

\* variant: every ordering is by screenPageViews
MetricDescByViews(m) == <<[metric |-> [metricName |-> "screenPageViews"], desc |-> TRUE]>>

MetricDesc(m) == <<[metric |-> [metricName |-> m], desc |-> TRUE]>>

StringFilter(field, matchType, value) ==
  [filter |-> [fieldName |-> field,
               stringFilter |-> [matchType |-> matchType, value |-> value]]]

\* variant: the last case of the switch is missing
ReportCasesNoDevice ==
  {"overview", "top_pages", "traffic_sources", "geographic", "user_demographics",
   "conversions", "us_states", "engagement_metrics", "ecommerce_overview"}

\* the case labels of switch (reportType)
ReportCases ==
  {"overview", "top_pages", "traffic_sources", "geographic", "user_demographics",
   "conversions", "us_states", "engagement_metrics", "ecommerce_overview",
   "device_technology"}

\* the object literal each case assigns to reportConfig
Preset(reportType) ==
  CASE reportType = "overview" ->
         [dimensions |-> <<"date">>,
          metrics |-> <<"activeUsers", "sessions", "screenPageViews", "bounceRate",
                        "averageSessionDuration">>]
    [] reportType = "top_pages" ->
         [dimensions |-> <<"pagePath", "pageTitle">>,
          metrics |-> <<"screenPageViews", "activeUsers", "bounceRate">>,
          orderBys |-> MetricDesc("screenPageViews")]
    [] reportType = "traffic_sources" ->
         [dimensions |-> <<"sessionDefaultChannelGroup", "sessionSource", "sessionMedium">>,
          metrics |-> <<"sessions", "activeUsers", "newUsers", "bounceRate">>,
          orderBys |-> MetricDesc("sessions")]
    [] reportType = "geographic" ->
         [dimensions |-> <<"country", "region", "city">>,
          metrics |-> <<"activeUsers", "sessions", "newUsers", "bounceRate">>,
          orderBys |-> MetricDesc("activeUsers")]
    [] reportType = "user_demographics" ->
         [dimensions |-> <<"userAgeBracket", "userGender", "country">>,
          metrics |-> <<"activeUsers", "sessions", "averageSessionDuration", "bounceRate">>]
    [] reportType = "conversions" ->
         [dimensions |-> <<"eventName", "sessionDefaultChannelGroup">>,
          metrics |-> <<"conversions", "eventCount", "eventValue">>,
          dimensionFilter |-> StringFilter("eventName", "CONTAINS", "conversion")]
    [] reportType = "us_states" ->
         [dimensions |-> <<"region", "city">>,
          metrics |-> <<"activeUsers", "sessions", "newUsers">>,
          dimensionFilter |-> StringFilter("country", "EXACT", "United States"),
          orderBys |-> MetricDesc("activeUsers")]
    [] reportType = "engagement_metrics" ->
         [dimensions |-> <<"date">>,
          metrics |-> <<"bounceRate", "engagementRate", "engagedSessions",
                        "averageSessionDuration", "screenPageViewsPerSession",
                        "userEngagementDuration">>]
    [] reportType = "ecommerce_overview" ->
         [dimensions |-> <<"date">>,
          metrics |-> <<"totalRevenue", "transactions", "averagePurchaseRevenue",
                        "itemRevenue", "addToCarts", "checkouts", "ecommercePurchases">>]
    [] reportType = "device_technology" ->
         [dimensions |-> <<"deviceCategory", "operatingSystem", "browser">>,
          metrics |-> <<"activeUsers", "sessions", "bounceRate", "averageSessionDuration">>,
          orderBys |-> MetricDesc("activeUsers")]

\* let reportConfig = {}; switch (reportType) {...}: {} when no case matches
ReportConfig(reportType) ==
  IF reportType \in ReportCases THEN Preset(reportType) ELSE <<>>

\* if (reportConfig.dimensionFilter) ...; if (reportConfig.orderBys) ...
ConfigField(reportConfig, k) ==
  IF Has(reportConfig, k) THEN [j \in {k} |-> reportConfig[k]] ELSE <<>>

\* variant: the preset's ordering is left out when the caller passes a limit
QuickRequestUnorderedIfLimited(args, reportConfig) ==
  [property |-> PropertyPath(args.propertyId),
   dateRanges |-> <<[startDate |-> args.startDate, endDate |-> args.endDate]>>,
   dimensions |-> WrapNames(reportConfig.dimensions),
   metrics |-> WrapNames(reportConfig.metrics),
   limit |-> Default(args, "limit", QuickLimitDefault)]
  @@ ConfigField(reportConfig, "dimensionFilter")
  @@ (IF Has(args, "limit") THEN <<>> ELSE ConfigField(reportConfig, "orderBys"))

QuickRequest(args, reportConfig) ==
  [property |-> PropertyPath(args.propertyId),
   dateRanges |-> <<[startDate |-> args.startDate, endDate |-> args.endDate]>>,
   dimensions |-> WrapNames(reportConfig.dimensions),
   metrics |-> WrapNames(reportConfig.metrics),
   limit |-> Default(args, "limit", QuickLimitDefault)]
  @@ ConfigField(reportConfig, "dimensionFilter") @@ ConfigField(reportConfig, "orderBys")

\* the message of the TypeError of reading a property of undefined
TypeErrorMessage ==
  <<"C","a","n","n","o","t"," ","r","e","a","d"," ","p","r","o","p","e","r","t","i","e","s",
    " ","o","f"," ","u","n","d","e","f","i","n","e","d">>

TypeError == [message |-> TypeErrorMessage]

\* variant: a filter sent by the caller is merged over the preset's request
QuickBeginMerging(args) ==
  LET reportConfig == ReportConfig(args.reportType) IN
  IF Has(reportConfig, "dimensions") /\ Has(reportConfig, "metrics")
  THEN [kind |-> "call", api |-> "runReport",
        request |-> DimensionFilterOf(args) @@ MetricFilterOf(args)
                    @@ QuickRequest(args, reportConfig)]
  ELSE [kind |-> "throw", error |-> TypeError]

\* what the wrapped function of quick_insights does up to its await:
\* reportConfig.dimensions.map throws when reportConfig has no dimensions
QuickBegin(args) ==
  LET reportConfig == ReportConfig(args.reportType) IN
  IF Has(reportConfig, "dimensions") /\ Has(reportConfig, "metrics")
  THEN [kind |-> "call", api |-> "runReport", request |-> QuickRequest(args, reportConfig)]
  ELSE [kind |-> "throw", error |-> TypeError]

----------------------------------------------------------------------------
(* get_metadata and search_metadata: what follows the await *)

\* String.prototype.toLowerCase, on the letters the model's texts use
LowerChar(c) ==
  CASE c = "C" -> "c" [] c = "U" -> "u" [] c = "S" -> "s" [] c = "E" -> "e"
    [] c = "R" -> "r" [] c = "T" -> "t" [] c = "Y" -> "y" [] c = "I" -> "i"
    [] OTHER -> c

ToLowerCase(str) == [k \in 1..Len(str) |-> LowerChar(str[k])]

\* a property read as a value of an object literal: undefined when absent
Field(o, k) == IF Has(o, k) THEN <<o[k]>> ELSE <<>>

\* .map(dim => ({ apiName, uiName, description, category, customDefinition }))
DimensionView(dim) ==
  [apiName |-> Field(dim, "apiName"), uiName |-> Field(dim, "uiName"),
   description |-> Field(dim, "description"), category |-> Field(dim, "category"),
   customDefinition |-> Field(dim, "customDefinition")]

\* .map(metric => ({ apiName, uiName, description, type, category, customDefinition }))
MetricView(metric) ==
  [apiName |-> Field(metric, "apiName"), uiName |-> Field(metric, "uiName"),
   description |-> Field(metric, "description"), type |-> Field(metric, "type"),
   category |-> Field(metric, "category"),
   customDefinition |-> Field(metric, "customDefinition")]

\* JSON.stringify(result): each descriptor view loses its undefined keys
StringifyResult(result) ==
  [k \in DOMAIN result |-> [j \in 1..Len(result[k]) |-> JSONstringify(result[k][j])]]

\* variant: the field is compared as it is spelled
FieldMatchesAsSpelled(d, f, searchTerm) == Has(d, f) /\ Includes(d[f], searchTerm)

\* d.f?.toLowerCase().includes(searchTerm): undefined (falsy) when f is absent
FieldMatches(d, f, searchTerm) == Has(d, f) /\ Includes(ToLowerCase(d[f]), searchTerm)

MatchesSearch(d, searchTerm) ==
  \/ FieldMatches(d, "apiName", searchTerm)
  \/ FieldMatches(d, "uiName", searchTerm)
  \/ FieldMatches(d, "description", searchTerm)

\* variant: a descriptor without a category passes any category
MatchesCategoryIfCategorised(d, args) ==
  \/ ~Truthy(args, "category")
  \/ ~Has(d, "category")
  \/ d.category = args.category

\* !category || d.category === category
MatchesCategory(d, args) ==
  \/ ~Truthy(args, "category")
  \/ (Has(d, "category") /\ d.category = args.category)

WantsDimensions(type) == type = "dimensions" \/ type = "both"
\* variant: the metrics list is reported whatever the type
WantsMetricsAlways(type) == TRUE

WantsMetrics(type) == type = "metrics" \/ type = "both"

\* response.dimensions?.map(...) || []
ListedDimensions(doc) ==
  IF Has(doc, "dimensions")
  THEN [k \in 1..Len(doc.dimensions) |-> DimensionView(doc.dimensions[k])]
  ELSE <<>>

ListedMetrics(doc) ==
  IF Has(doc, "metrics")
  THEN [k \in 1..Len(doc.metrics) |-> MetricView(doc.metrics[k])]
  ELSE <<>>

\* response.dimensions?.filter(...).map(...) || []
FoundDimensions(doc, args) ==
  IF Has(doc, "dimensions")
  THEN LET hits == SelectSeq(doc.dimensions,
                     LAMBDA d : MatchesSearch(d, ToLowerCase(args.query))
                                /\ MatchesCategory(d, args))
       IN [k \in 1..Len(hits) |-> DimensionView(hits[k])]
  ELSE <<>>

FoundMetrics(doc, args) ==
  IF Has(doc, "metrics")
  THEN LET hits == SelectSeq(doc.metrics,
                     LAMBDA d : MatchesSearch(d, ToLowerCase(args.query))
                                /\ MatchesCategory(d, args))
       IN [k \in 1..Len(hits) |-> MetricView(hits[k])]
  ELSE <<>>

\* get_metadata after the await; response is << >> (undefined) or <<doc>>
GetMetadataFinish(args, response) ==
  IF response = <<>>
  THEN [kind |-> "throw", error |-> TypeError]
  ELSE LET doc == response[1]
           type == Default(args, "type", "both")
           result == (IF WantsDimensions(type)
                      THEN [dimensions |-> ListedDimensions(doc)] ELSE <<>>)
                     @@ (IF WantsMetrics(type)
                         THEN [metrics |-> ListedMetrics(doc)] ELSE <<>>)
       IN [kind |-> "return", value |-> TextResult(StringifyResult(result))]

\* search_metadata after the await
SearchMetadataFinish(args, response) ==
  IF response = <<>>
  THEN [kind |-> "throw", error |-> TypeError]
  ELSE LET doc == response[1]
           type == Default(args, "type", "both")
           result == (IF WantsDimensions(type)
                      THEN [dimensions |-> FoundDimensions(doc, args)] ELSE <<>>)
                     @@ (IF WantsMetrics(type)
                         THEN [metrics |-> FoundMetrics(doc, args)] ELSE <<>>)
       IN [kind |-> "return", value |-> TextResult(StringifyResult(result))]

\* analytics_report, realtime_data and quick_insights after the await
ReportFinish(response) ==
  [kind |-> "return", value |-> TextResult(JSONstringify(response[1]))]

MetadataBegin(args) ==
  [kind |-> "call", api |-> "getMetadata",
   request |-> [name |-> MetadataName(args.propertyId)]]

----------------------------------------------------------------------------
(* the handlers as steps of an invocation *)

Tools == {"analytics_report", "realtime_data", "quick_insights", "get_metadata",
          "search_metadata"}

ReportTools == {"analytics_report", "realtime_data", "quick_insights"}

\* the wrapped function up to its await
Begin(tool, args) ==
  CASE tool = "analytics_report" -> AnalyticsBegin(args)
    [] tool = "realtime_data" -> RealtimeBegin(args)
    [] tool = "quick_insights" -> QuickBegin(args)
    [] tool = "get_metadata" -> MetadataBegin(args)
    [] tool = "search_metadata" -> MetadataBegin(args)

\* the wrapped function from its await to its return
Finish(tool, args, response) ==
  CASE tool \in ReportTools -> ReportFinish(response)
    [] tool = "get_metadata" -> GetMetadataFinish(args, response)
    [] tool = "search_metadata" -> SearchMetadataFinish(args, response)

\* the backend calls a handler issues for what Begin built
Issue(i, begin) == <<[api |-> begin.api, request |-> begin.request]>>

Idle == [pc |-> "idle"]

\* test-connection.js has not been started
NotRun == [pc |-> "start"]

\* the invocation has settled: a result for the protocol layer, or an exception.
\* backend records how the awaited call ended (<< >> when none was awaited)
Settled(tool, args, calls, backend, outcome) ==
  IF outcome.kind = "return"
  THEN [pc |-> "returned", tool |-> tool, args |-> args, calls |-> calls,
        backend |-> backend, result |-> outcome.value]
  ELSE [pc |-> "threw", tool |-> tool, args |-> args, calls |-> calls,
        backend |-> backend, error |-> outcome.error]

\* variant: a missing propertyId falls back to the GA_PROPERTY_ID of the environment
HandlerWithDefault(i, tool, args) ==
  LET given == IF Truthy(args, "propertyId") THEN <<args.propertyId>>
               ELSE defaultPropertyId
      effective == IF given = <<>> THEN args ELSE [propertyId |-> given[1]] @@ args
  IN
  /\ inv[i].pc = "idle"
  /\ inv' = [inv EXCEPT ![i] =
       IF given = <<>>
       THEN Settled(tool, args, <<>>, <<>>,
                    [kind |-> "return", value |-> PropertyIdRequired(tool)])
       ELSE LET begin == Begin(tool, effective) IN
            IF begin.kind = "call"
            THEN [pc |-> "awaiting", tool |-> tool, args |-> args,
                  calls |-> Issue(i, begin)]
            ELSE Settled(tool, args, <<>>, <<>>,
                         ExecuteWithErrorHandling(begin, given[1], serviceAccountEmail))]
  /\ UNCHANGED <<serviceAccountEmail, defaultPropertyId, test>>

\* a handler from its entry to its first await (or to its return)
Handler(i, tool, args) ==
  /\ inv[i].pc = "idle"
  /\ inv' = [inv EXCEPT ![i] =
       IF ~Truthy(args, "propertyId")
       THEN Settled(tool, args, <<>>, <<>>,
                    [kind |-> "return", value |-> PropertyIdRequired(tool)])
       ELSE LET begin == Begin(tool, args) IN
            IF begin.kind = "call"
            THEN [pc |-> "awaiting", tool |-> tool, args |-> args,
                  calls |-> Issue(i, begin)]
            ELSE Settled(tool, args, <<>>, <<>>,
                         ExecuteWithErrorHandling(begin, args.propertyId,
                                                  serviceAccountEmail))]
  /\ UNCHANGED <<serviceAccountEmail, defaultPropertyId, test>>

AnalyticsReport(i, args) == Handler(i, "analytics_report", args)
RealtimeData(i, args) == Handler(i, "realtime_data", args)
QuickInsights(i, args) == Handler(i, "quick_insights", args)
GetMetadata(i, args) == Handler(i, "get_metadata", args)
SearchMetadata(i, args) == Handler(i, "search_metadata", args)

\* variant: a response settles every invocation awaiting the same backend operation
BackendResolvesAll(i, response) ==
  /\ inv[i].pc = "awaiting"
  /\ inv' = [j \in DOMAIN inv |->
       IF inv[j].pc = "awaiting" /\ inv[j].tool = inv[i].tool
       THEN Settled(inv[j].tool, inv[j].args, inv[j].calls,
                    <<[settled |-> "resolved", response |-> response]>>,
                    ExecuteWithErrorHandling(Finish(inv[j].tool, inv[j].args, response),
                                             inv[j].args.propertyId, serviceAccountEmail))
       ELSE inv[j]]
  /\ UNCHANGED <<serviceAccountEmail, defaultPropertyId, test>>

\* the awaited backend call resolves with [response]
BackendResolves(i, response) ==
  /\ inv[i].pc = "awaiting"
  /\ inv' = [inv EXCEPT ![i] =
       Settled(inv[i].tool, inv[i].args, inv[i].calls,
               <<[settled |-> "resolved", response |-> response]>>,
               ExecuteWithErrorHandling(Finish(inv[i].tool, inv[i].args, response),
                                        inv[i].args.propertyId, serviceAccountEmail))]
  /\ UNCHANGED <<serviceAccountEmail, defaultPropertyId, test>>

\* variant: a failed call is issued once more before the error is classified
AfterRejectionRetry(i, error) ==
  IF Len(inv[i].calls) < 2
  THEN [inv[i] EXCEPT !.calls = Append(@, @[1])]
  ELSE Settled(inv[i].tool, inv[i].args, inv[i].calls,
               <<[settled |-> "rejected", error |-> error]>>,
               ExecuteWithErrorHandling([kind |-> "throw", error |-> error],
                                        inv[i].args.propertyId, serviceAccountEmail))

\* the catch path of an awaiting invocation: classify and return, nothing is re-issued
AfterRejection(i, error) ==
  Settled(inv[i].tool, inv[i].args, inv[i].calls,
          <<[settled |-> "rejected", error |-> error]>>,
          ExecuteWithErrorHandling([kind |-> "throw", error |-> error],
                                   inv[i].args.propertyId, serviceAccountEmail))

\* the awaited backend call rejects with error
BackendRejects(i, error) ==
  /\ inv[i].pc = "awaiting"
  /\ inv' = [inv EXCEPT ![i] = AfterRejection(i, error)]
  /\ UNCHANGED <<serviceAccountEmail, defaultPropertyId, test>>

\* variant: a returned invocation re-issues its backend call before it is over
ReturnThenRefresh(i) ==
  /\ inv[i].pc \in {"returned", "threw"}
  /\ inv' = [inv EXCEPT ![i] =
       IF inv[i].pc = "returned" /\ Len(inv[i].calls) = 1
       THEN [inv[i] EXCEPT !.calls = Append(@, @[1])]
       ELSE Idle]
  /\ UNCHANGED <<serviceAccountEmail, defaultPropertyId, test>>

\* the protocol layer takes the handler's result (or exception); the invocation is over
Return(i) ==
  /\ inv[i].pc \in {"returned", "threw"}
  /\ inv' = [inv EXCEPT ![i] = Idle]
  /\ UNCHANGED <<serviceAccountEmail, defaultPropertyId, test>>

----------------------------------------------------------------------------
(* inputs: tool arguments, backend responses and backend errors *)

\* longest dimension or metric list a caller passes
MaxLen == 2

Emails == {"svc@x.iam", "reader@y.iam"}

PropertyIds == {"", "123", "9"}

\* GA_PROPERTY_ID: unset, or a property no caller asks for
EnvPropertyIds == {<<>>, <<"456">>}

Dates == {"2024-01-01", "2024-01-31"}

NameSet == {"country", "sessions"}

NameSeqs == UNION {[1..n -> NameSet] : n \in 0..MaxLen}

CountryFilter == StringFilter("country", "EXACT", "Norway")

\* orderBy objects: any of dimension, metric ("" included) and desc may be unset
OrderByInputs ==
  {d @@ m @@ x : d \in Opt("dimension", {"", "country"}),
                 m \in Opt("metric", {"", "sessions"}),
                 x \in Opt("desc", {FALSE})}

ReportArgs(P, SD, ED, D, M, DF, MF, OB, L) ==
  {[startDate |-> sd, endDate |-> ed, metrics |-> m] @@ p @@ d @@ df @@ mf @@ ob @@ l :
     p \in P, sd \in SD, ed \in ED, d \in Opt("dimensions", D), m \in M,
     df \in Opt("dimensionFilter", DF), mf \in Opt("metricFilter", MF),
     ob \in Opt("orderBy", OB), l \in Opt("limit", L)}

RealtimeArgs(P, D, M, L) ==
  {p @@ d @@ m @@ l :
     p \in P, d \in Opt("dimensions", D), m \in Opt("metrics", M),
     l \in Opt("limit", L)}

QuickArgs(P, SD, ED, L) ==
  {[startDate |-> sd, endDate |-> ed, reportType |-> t] @@ p @@ l :
     p \in P, sd \in SD, ed \in ED, t \in ReportTypes,
     l \in Opt("limit", L)}

\* keys outside quick_insights' inputSchema that a caller may still send
UnlistedArgs ==
  {df @@ mf @@ ob : df \in Opt("dimensionFilter", {CountryFilter}),
                    mf \in Opt("metricFilter", {CountryFilter}),
                    ob \in Opt("orderBy", {[metric |-> "sessions"]})}

GetMetadataArgs(P) ==
  {p @@ t : p \in P, t \in Opt("type", MetadataTypes)}

Country == <<"c","o","u","n","t","r","y">>
City == <<"c","i","t","y">>

Queries == {<<>>, Country, <<"C","I","T">>}

Categories == {"", "USER", "user"}

SearchMetadataArgs(P) ==
  {[query |-> q] @@ p @@ t @@ c :
     q \in Queries, p \in P, t \in Opt("type", MetadataTypes),
     c \in Opt("category", Categories)}

\* backend errors { code?, message? }
MsgLacksPermission ==
  <<"l","a","c","k","s"," ","p","e","r","m","i","s","s","i","o","n">>
MsgDeniedUpper ==
  <<"P","E","R","M","I","S","S","I","O","N","_","D","E","N","I","E","D">>
MsgQuota == <<"q","u","o","t","a">>

Errors ==
  {c @@ m : c \in Opt("code", {7, 3}),
            m \in Opt("message", {MsgLacksPermission, MsgDeniedUpper, MsgQuota})}

\* runReport / runRealtimeReport responses
ReportResponses ==
  {<<[rowCount |-> <<0>>, rows |-> <<>>]>>,
   <<[rowCount |-> <<1>>, rows |-> << <<"row 1">> >>]>>}

\* getMetadata responses; << >> is a call that resolves with no document
DocGeo ==
  [dimensions |-> <<[apiName |-> Country, uiName |-> <<"C","o","u","n","t","r","y">>,
                     category |-> "GEOGRAPHY", customDefinition |-> FALSE],
                    [apiName |-> City, category |-> "USER"]>>,
   metrics |-> <<[apiName |-> <<"s","e","s","s","i","o","n","s">>,
                  description |-> <<"p","e","r"," ","c","i","t","y">>,
                  type |-> "TYPE_INTEGER", category |-> "SESSION"]>>]

DocMetricsOnly == [metrics |-> <<[uiName |-> <<"U","s","e","r","s">>, category |-> "USER"]>>]

\* two dimensions that have an apiName only; the document has no metrics
DocPair == [dimensions |-> <<[apiName |-> Country], [apiName |-> City]>>]

\* dimensions that lack most fields: one named by a capitalised uiName only, one with
\* a category and no name or description, one whose category differs from "USER" by
\* case, one with a description only, one whose apiName is the empty string
DocSparse ==
  [dimensions |-> <<[uiName |-> <<"C","i","t","y">>, category |-> "USER"],
                    [category |-> "USER"],
                    [apiName |-> Country, category |-> "user"],
                    [description |-> City],
                    [apiName |-> <<>>, category |-> "GEOGRAPHY"]>>,
   metrics |-> <<>>]

MetadataResponses ==
  {<<>>, <<DocGeo>>, <<DocMetricsOnly>>, <<DocPair>>, <<DocSparse>>}

Responses(tool) == IF tool \in ReportTools THEN ReportResponses ELSE MetadataResponses

----------------------------------------------------------------------------
(* the server: one invocation at a time, every outcome of its backend call *)

Init ==
  /\ serviceAccountEmail \in Emails
  /\ defaultPropertyId \in EnvPropertyIds
  /\ inv = <<Idle>>
  /\ test = NotRun

\* the caller's propertyId: unset, empty or an id
AnyPropertyId == Opt("propertyId", PropertyIds)

FlowReportArgs ==
  ReportArgs(AnyPropertyId, Dates, Dates, {<<"country", "sessions">>}, {<<"sessions">>},
             {CountryFilter}, {}, {[metric |-> "sessions"]}, {7})

\* the invocation slots at a given point of their handler
At(pcs) == {i \in DOMAIN inv : inv[i].pc \in pcs}

Next ==
  \/ \E i \in At({"idle"}) : \E args \in FlowReportArgs : AnalyticsReport(i, args)
  \/ \E i \in At({"idle"}) :
       \E args \in RealtimeArgs(AnyPropertyId, {<<"country">>}, {<<"sessions">>}, {7}) :
         RealtimeData(i, args)
  \/ \E i \in At({"idle"}) : \E args \in QuickArgs(AnyPropertyId, Dates, Dates, {7}) :
       QuickInsights(i, args)
  \/ \E i \in At({"idle"}) : \E args \in GetMetadataArgs(AnyPropertyId) : GetMetadata(i, args)
  \/ \E i \in At({"idle"}) : \E args \in SearchMetadataArgs(AnyPropertyId) :
       SearchMetadata(i, args)
  \/ \E i \in At({"awaiting"}) : \E response \in Responses(inv[i].tool) :
       BackendResolves(i, response)
  \/ \E i \in At({"awaiting"}) : \E error \in Errors : BackendRejects(i, error)
  \/ \E i \in At({"returned", "threw"}) : Return(i)

Spec == Init /\ [][Next]_vars

----------------------------------------------------------------------------
(* the request builders over every combination of optional arguments *)

OneProperty == {[propertyId |-> "123"]}

QueryReportArgs ==
  ReportArgs(OneProperty, {"2024-01-01"}, {"2024-01-31"}, NameSeqs, NameSeqs,
             {<<>>, CountryFilter}, {CountryFilter}, OrderByInputs, {0, 7})

NextQuery ==
  \/ \E i \in At({"idle"}) : \E args \in QueryReportArgs : AnalyticsReport(i, args)
  \/ \E i \in At({"idle"}) : \E args \in RealtimeArgs(OneProperty, NameSeqs, NameSeqs, {-1, 0, 7}) :
       RealtimeData(i, args)
  \/ \E i \in At({"idle"}) :
       \E args \in QuickArgs(OneProperty, {"2024-01-01"}, {"2024-01-31"}, {-1, 0, 7}) :
         \E unlisted \in UnlistedArgs : QuickInsights(i, args @@ unlisted)
  \/ \E i \in At({"idle"}) : \E args \in GetMetadataArgs(OneProperty) : GetMetadata(i, args)
  \/ \E i \in At({"idle"}) : \E args \in SearchMetadataArgs(OneProperty) :
       SearchMetadata(i, args)
  \/ \E i \in At({"awaiting"}) : \E response \in Responses(inv[i].tool) :
       BackendResolves(i, response)
  \/ \E i \in At({"awaiting"}) : \E error \in {[code |-> 7], [message |-> MsgQuota]} :
       BackendRejects(i, error)
  \/ \E i \in At({"returned", "threw"}) : Return(i)

SpecQuery == Init /\ [][NextQuery]_vars

----------------------------------------------------------------------------
(* the server with several invocations in progress: the handlers are async functions,
   so a second invocation may start, and backend calls may settle in any order, while
   another invocation is suspended at its await *)

\* invocations the host has in progress at the same time
MaxInv == 2

InitConcurrent ==
  /\ serviceAccountEmail \in Emails
  /\ defaultPropertyId \in EnvPropertyIds
  /\ inv = [i \in 1..MaxInv |-> Idle]
  /\ test = NotRun

TwoProperties == {[propertyId |-> "123"], [propertyId |-> "9"]}

ConcurrentReportArgs ==
  ReportArgs(TwoProperties, {"2024-01-01"}, {"2024-01-31"}, {}, {<<"sessions">>},
             {}, {}, {}, {})

ConcurrentQuickArgs ==
  {args \in QuickArgs(TwoProperties, {"2024-01-01"}, {"2024-01-31"}, {}) :
     args.reportType \in {"us_states", "overview"}}

ConcurrentSearchArgs ==
  {args \in SearchMetadataArgs(OneProperty) :
     /\ args.query = Country /\ ~Has(args, "type")
     /\ Has(args, "category") => args.category = "USER"}

ConcurrentResponses(tool) ==
  IF tool \in ReportTools THEN ReportResponses ELSE {<<DocGeo>>}

NextConcurrent ==
  \/ \E i \in At({"idle"}) : \E args \in ConcurrentReportArgs : AnalyticsReport(i, args)
  \/ \E i \in At({"idle"}) :
       \E args \in RealtimeArgs(Opt("propertyId", {"123"}), {}, {}, {}) :
         RealtimeData(i, args)
  \/ \E i \in At({"idle"}) : \E args \in ConcurrentQuickArgs : QuickInsights(i, args)
  \/ \E i \in At({"idle"}) : \E args \in {[propertyId |-> "123"]} : GetMetadata(i, args)
  \/ \E i \in At({"idle"}) : \E args \in ConcurrentSearchArgs : SearchMetadata(i, args)
  \/ \E i \in At({"awaiting"}) : \E response \in ConcurrentResponses(inv[i].tool) :
       BackendResolves(i, response)
  \/ \E i \in At({"awaiting"}) : \E error \in {[code |-> 7]} : BackendRejects(i, error)
  \/ \E i \in At({"returned", "threw"}) : Return(i)

SpecConcurrent == InitConcurrent /\ [][NextConcurrent]_vars

----------------------------------------------------------------------------
(* test-connection.js: the connectivity script. process.argv is a function from
   its indices (2, 3) to strings; a line of console output is a record *)

totalTests == 5

\* process.argv[2] || process.env.GA_PROPERTY_ID, << >> when both are falsy
TestPropertyId(argv) ==
  IF Truthy(argv, 2) THEN <<argv[2]>>
  ELSE IF defaultPropertyId # <<>> /\ defaultPropertyId[1] # "" THEN defaultPropertyId
  ELSE <<>>

\* the backend call of each of the five tests
TestCall(k, propertyId, dates) ==
  CASE k = 1 ->
         [api |-> "runReport",
          request |-> [property |-> <<"properties/", propertyId>>,
                       dateRanges |-> <<dates>>,
                       dimensions |-> <<[name |-> "date"], [name |-> "country"]>>,
                       metrics |-> <<[name |-> "activeUsers"], [name |-> "sessions"]>>,
                       limit |-> 10]]
    [] k = 2 ->
         [api |-> "runRealtimeReport",
          request |-> [property |-> <<"properties/", propertyId>>,
                       dimensions |-> <<[name |-> "country"]>>,
                       metrics |-> <<[name |-> "activeUsers"]>>,
                       limit |-> 5]]
    [] k = 3 ->
         [api |-> "runReport",
          request |-> [property |-> <<"properties/", propertyId>>,
                       dateRanges |-> <<dates>>,
                       dimensions |-> <<[name |-> "date"]>>,
                       metrics |-> <<[name |-> "activeUsers"], [name |-> "sessions"],
                                     [name |-> "screenPageViews"], [name |-> "bounceRate"],
                                     [name |-> "averageSessionDuration"]>>]]
    [] k = 4 ->
         [api |-> "getMetadata",
          request |-> [name |-> <<"properties/", propertyId, "/metadata">>]]
    [] k = 5 ->
         [api |-> "getMetadata",
          request |-> [name |-> <<"properties/", propertyId, "/metadata">>]]

\* the call for the additional property of process.argv[3]
ExtraCall(propertyId, dates) ==
  [api |-> "runReport",
   request |-> [property |-> <<"properties/", propertyId>>,
                dateRanges |-> <<dates>>,
                dimensions |-> <<[name |-> "date"]>>,
                metrics |-> <<[name |-> "activeUsers"]>>,
                limit |-> 1]]

Success(k) == [line |-> "SUCCESS", test |-> k]
Failed(k) == [line |-> "FAILED", test |-> k]

\* try { const [response] = await ...; console.log(SUCCESS ...); testsPassed++ }
\* catch (error) { console.log(FAILED ...) }: the lines printed and whether
\* testsPassed++ is reached. With response undefined, tests 1, 2 and 4 print their
\* SUCCESS line before the first read of response throws; tests 3 and 5 read it first
TryBlock(k, backend) ==
  IF backend.settled = "rejected"
  THEN [out |-> <<Failed(k)>>, passed |-> FALSE]
  ELSE IF backend.response = <<>>
  THEN IF k \in {1, 2, 4}
       THEN [out |-> <<Success(k), Failed(k)>>, passed |-> FALSE]
       ELSE [out |-> <<Failed(k)>>, passed |-> FALSE]
  ELSE [out |-> <<Success(k)>>, passed |-> TRUE]

\* if (testsPassed === totalTests) ... else ...
Summary(testsPassed) ==
  IF testsPassed = totalTests
  THEN [line |-> "ALL TESTS PASSED", total |-> totalTests]
  ELSE [line |-> "tests passed", passed |-> testsPassed, total |-> totalTests]

\* the try / catch around the call for the additional property
ExtraOut(propertyId, backend) ==
  IF backend.settled = "resolved" /\ backend.response # <<>>
  THEN <<[line |-> "Access granted", property |-> propertyId]>>
  ELSE LET error == IF backend.settled = "rejected" THEN backend.error ELSE TypeError
           denied == IF IsPermissionError(error)
                     THEN [line |-> "Permission denied", property |-> propertyId]
                     ELSE [line |-> "Error accessing", property |-> propertyId]
       IN IF backend.settled = "resolved"
          THEN <<[line |-> "Access granted", property |-> propertyId], denied>>
          ELSE <<denied>>

\* if (process.argv[3] && process.argv[3] !== propertyId)
HasExtraProperty(t) == Truthy(t.argv, 3) /\ t.argv[3] # t.propertyId

\* testConnection() up to its first await: the property id check, then test 1.
\* Without a property id the Error is thrown to the outer catch, which prints
\* CRITICAL ERROR and calls process.exit(1)
TestConnection(argv, dates) ==
  /\ test.pc = "start"
  /\ test' =
       LET id == TestPropertyId(argv) IN
       IF id = <<>>
       THEN [pc |-> "exited", argv |-> argv, calls |-> <<>>, settled |-> <<>>,
             out |-> <<[line |-> "CRITICAL ERROR"]>>, exit |-> 1]
       ELSE [pc |-> "awaiting", argv |-> argv, propertyId |-> id[1], dates |-> dates,
             calls |-> <<TestCall(1, id[1], dates)>>, settled |-> <<>>,
             testsPassed |-> 0, out |-> <<>>]
  /\ UNCHANGED <<serviceAccountEmail, defaultPropertyId, inv>>

\* variant: a failed test is rethrown to the outer catch
AfterAwaitRethrowing(backend) ==
  LET k == Len(test.calls)
      settled == Append(test.settled, backend)
  IN
  IF k <= totalTests /\ ~TryBlock(k, backend).passed
  THEN [pc |-> "exited", argv |-> test.argv, calls |-> test.calls, settled |-> settled,
        out |-> test.out \o <<[line |-> "CRITICAL ERROR"]>>, exit |-> 1]
  ELSE IF k < totalTests
  THEN [test EXCEPT !.settled = settled,
                    !.testsPassed = @ + 1,
                    !.out = @ \o TryBlock(k, backend).out,
                    !.calls = Append(@, TestCall(k + 1, test.propertyId, test.dates))]
  ELSE [test EXCEPT !.pc = "returned", !.settled = settled,
                    !.testsPassed = IF k = totalTests THEN @ + 1 ELSE @,
                    !.out = @ \o <<Summary(totalTests)>>]

\* testConnection() from the settling of the call it awaits to its next await, or to
\* its end: the rest of the test's try / catch, then the next test; after test 5 the
\* summary and, for an additional property, one more call; after that call its report
AfterAwait(backend) ==
  LET k == Len(test.calls)
      settled == Append(test.settled, backend)
  IN
  IF k < totalTests
  THEN [test EXCEPT !.settled = settled,
                    !.testsPassed = IF TryBlock(k, backend).passed THEN @ + 1 ELSE @,
                    !.out = @ \o TryBlock(k, backend).out,
                    !.calls = Append(@, TestCall(k + 1, test.propertyId, test.dates))]
  ELSE IF k = totalTests
  THEN LET testsPassed == IF TryBlock(k, backend).passed THEN test.testsPassed + 1
                          ELSE test.testsPassed
           summed == [test EXCEPT !.settled = settled,
                                  !.testsPassed = testsPassed,
                                  !.out = @ \o TryBlock(k, backend).out
                                            \o <<Summary(testsPassed)>>]
       IN IF HasExtraProperty(test)
          THEN [summed EXCEPT !.calls = Append(@, ExtraCall(test.argv[3], test.dates))]
          ELSE [summed EXCEPT !.pc = "returned"]
  ELSE [test EXCEPT !.pc = "returned", !.settled = settled,
                    !.out = @ \o ExtraOut(test.argv[3], backend)]

\* the call testConnection() awaits resolves with [response]
TestResolves(response) ==
  /\ test.pc = "awaiting"
  /\ test' = AfterAwait([settled |-> "resolved", response |-> response])
  /\ UNCHANGED <<serviceAccountEmail, defaultPropertyId, inv>>

\* the call testConnection() awaits rejects with error
TestRejects(error) ==
  /\ test.pc = "awaiting"
  /\ test' = AfterAwait([settled |-> "rejected", error |-> error])
  /\ UNCHANGED <<serviceAccountEmail, defaultPropertyId, inv>>

\* process.argv: no argument, an empty or a real property id, an additional property
ArgvInputs ==
  {<<>>} \cup {[k \in {2} |-> a] : a \in {"", "123"}}
         \cup {[k \in {2, 3} |-> IF k = 2 THEN a ELSE b] : a \in {"", "123"}, b \in {"123", "9"}}

\* the clock: [startDate, endDate] is the last seven days
TestDates == {[startDate |-> "2024-01-24", endDate |-> "2024-01-31"]}

\* a row as the script reads it
TestRow ==
  [dimensionValues |-> <<[value |-> "Norway"]>>,
   metricValues |-> <<[value |-> "3"], [value |-> "4"], [value |-> "5"]>>]

\* what the awaited call resolves with: no response object, or a response
TestResponses(api) ==
  IF api = "getMetadata" THEN {<<>>, <<DocGeo>>}
  ELSE {<<>>, <<[rows |-> <<TestRow>>]>>}

TestErrors == {[code |-> 7], [message |-> MsgQuota]}

InitTest ==
  /\ serviceAccountEmail \in Emails
  /\ defaultPropertyId \in EnvPropertyIds
  /\ inv = <<Idle>>
  /\ test = NotRun

NextTest ==
  \/ \E argv \in ArgvInputs : \E dates \in TestDates : TestConnection(argv, dates)
  \/ /\ test.pc = "awaiting"
     /\ \E response \in TestResponses(test.calls[Len(test.calls)].api) :
          TestResolves(response)
  \/ \E error \in TestErrors : TestRejects(error)

SpecTest == InitTest /\ [][NextTest]_vars

----------------------------------------------------------------------------
(* properties *)

\* the invocation was given a non-empty propertyId
HasId(r) == r.pc # "idle" /\ Has(r.args, "propertyId") /\ r.args.propertyId # ""

\* the invocation has issued its backend call
Called(r) == r.pc # "idle" /\ r.calls # <<>>

\* the error its backend call was rejected with, if it was
Rejected(r) == r.pc = "returned" /\ r.backend # <<>> /\ r.backend[1].settled = "rejected"

\* a step after the await threw: the metadata call resolved with no document
ThrewInside(r) ==
  /\ r.pc = "returned" /\ r.backend # <<>> /\ r.backend[1].settled = "resolved"
  /\ r.tool \in {"get_metadata", "search_metadata"}
  /\ r.backend[1].response = <<>>

IsToolResult(res) ==
  DOMAIN res = {"content"} /\ Len(res.content) = 1 /\ res.content[1].type = "text"

ResultText(r) == r.result.content[1].text

IsPermissionDeniedText(t) ==
  Has(t, "error") /\ t.error = "Permission denied for this Google Analytics property"

IsGenericFailureText(t) ==
  Has(t, "error") /\ t.error = "Failed to fetch analytics data"

GuidanceText ==
  [error |-> "Property ID is required. Please specify a propertyId parameter.",
   example |-> "propertyId: \"123456789\"",
   instruction |-> "Please provide the Google Analytics 4 property ID you want to query."]

\* C1: no invocation ends in an exception, and an invocation whose backend call was
\* rejected, or whose wrapped function threw after the call, returns a tool result
\* whose text is a PermissionDenied or a GenericFailure payload.
C1_FailuresAreResults ==
  \A i \in DOMAIN inv :
    LET r == inv[i] IN
    /\ r.pc # "threw"
    /\ (Rejected(r) \/ ThrewInside(r)) =>
         /\ IsToolResult(r.result)
         /\ IsPermissionDeniedText(ResultText(r)) \/ IsGenericFailureText(ResultText(r))

C1_Witness ==
  \E i \in DOMAIN inv :
    /\ Rejected(inv[i])
    /\ inv[i].tool = "analytics_report"
    /\ inv[i].backend[1].error = [code |-> 3, message |-> MsgQuota]
    /\ IsGenericFailureText(ResultText(inv[i]))

\* C2: an invocation without a propertyId, or with the empty one, returns the one
\* guidance payload, whatever the tool, as a result, and issues no backend call.
C2_MissingPropertyId ==
  \A i \in DOMAIN inv :
    LET r == inv[i] IN
    (r.pc # "idle" /\ ~HasId(r)) =>
      /\ r.pc = "returned"
      /\ r.result = TextResult(GuidanceText)
      /\ r.calls = <<>>
      /\ r.backend = <<>>

C2_Witness ==
  \E i \in DOMAIN inv :
    /\ inv[i].pc = "returned"
    /\ inv[i].tool = "search_metadata"
    /\ Has(inv[i].args, "propertyId") /\ inv[i].args.propertyId = ""
    /\ ResultText(inv[i]) = GuidanceText
    /\ inv[i].calls = <<>>

\* the error has status code 7 or a message containing "permission"
PermissionCase(e) ==
  \/ (Has(e, "code") /\ e.code = 7)
  \/ (Has(e, "message")
      /\ Includes(e.message, <<"p","e","r","m","i","s","s","i","o","n">>))

\* C3: a rejected backend call yields the PermissionDenied payload exactly when the
\* error has code 7 or a message containing the marker, and the GenericFailure payload
\* (message and property id only) otherwise; the PermissionDenied payload names the
\* service account of the server, the property id, the message and the four steps.
C3_Classification ==
  \A i \in DOMAIN inv :
    LET r == inv[i] IN
    Rejected(r) =>
      LET e == r.backend[1].error
          t == ResultText(r)
      IN /\ IsPermissionDeniedText(t) <=> PermissionCase(e)
         /\ IsGenericFailureText(t) <=> ~PermissionCase(e)
         /\ t.propertyId = r.args.propertyId
         /\ IsGenericFailureText(t) =>
              /\ DOMAIN t \subseteq {"error", "message", "propertyId"}
              /\ Has(t, "message") <=> Has(e, "message")
              /\ Has(e, "message") => t.message = e.message
         /\ IsPermissionDeniedText(t) =>
              /\ DOMAIN t \subseteq {"error", "propertyId", "solution", "steps", "originalError"}
              /\ t.solution = <<"Please grant access to the service account: ",
                                serviceAccountEmail>>
              /\ t.steps = << <<"1. Go to Google Analytics (analytics.google.com)">>,
                              <<"2. Navigate to Admin > Property Access Management">>,
                              <<"3. Add ", serviceAccountEmail, " with Viewer access">>,
                              <<"4. Try the query again">> >>
              /\ Has(t, "originalError") <=> Has(e, "message")
              /\ Has(e, "message") => t.originalError = e.message

C3_Witness ==
  \E i \in DOMAIN inv :
    /\ Rejected(inv[i])
    /\ inv[i].backend[1].error = [code |-> 7, message |-> MsgQuota]
    /\ inv[i].args.propertyId = "123"
    /\ serviceAccountEmail = "svc@x.iam"
    /\ IsPermissionDeniedText(ResultText(inv[i]))
    /\ ResultText(inv[i]).solution[2] = "svc@x.iam"

\* the backend operation each tool calls
ApiOf(tool) ==
  CASE tool \in {"analytics_report", "quick_insights"} -> "runReport"
    [] tool = "realtime_data" -> "runRealtimeReport"
    [] tool \in {"get_metadata", "search_metadata"} -> "getMetadata"

\* C4: an invocation with a non-empty propertyId issues exactly one backend call, the
\* one of its tool, before and after that call has succeeded or failed; a metadata
\* invocation always issues the getMetadata call for its own property.
C4_ExactlyOneCall ==
  \A i \in DOMAIN inv :
    LET r == inv[i] IN
    HasId(r) =>
      /\ Len(r.calls) = 1
      /\ r.calls[1].api = ApiOf(r.tool)
      /\ r.tool \in {"get_metadata", "search_metadata"} =>
           r.calls[1].request = [name |-> <<"properties/", r.args.propertyId, "/metadata">>]

C4_Witness ==
  \E i \in DOMAIN inv :
    /\ Rejected(inv[i])
    /\ inv[i].tool = "get_metadata"
    /\ Len(inv[i].calls) = 1
    /\ inv[i].calls[1].api = "getMetadata"

\* the request of the invocation's backend call
Request(r) == r.calls[1].request

\* the object o names something under k: k is set and not the empty string
Named(o, k) == Has(o, k) /\ o[k] # ""

NamesAField(orderBy) == Named(orderBy, "metric") \/ Named(orderBy, "dimension")

\* C5: the request of analytics_report has orderBys exactly when orderBy is set and
\* names a metric or a dimension; orderBys then holds one rule, which is a metric rule
\* or a dimension rule and never both.
C5_SingleOrderRule ==
  \A i \in DOMAIN inv :
    LET r == inv[i] IN
    (Called(r) /\ r.tool = "analytics_report") =>
      /\ Has(Request(r), "orderBys") <=>
           (Has(r.args, "orderBy") /\ NamesAField(r.args.orderBy))
      /\ Has(Request(r), "orderBys") =>
           /\ Len(Request(r).orderBys) = 1
           /\ Has(Request(r).orderBys[1], "metric") # Has(Request(r).orderBys[1], "dimension")
           /\ DOMAIN Request(r).orderBys[1] \subseteq {"metric", "dimension", "desc"}

C5_Witness ==
  \E i \in DOMAIN inv :
    /\ Called(inv[i]) /\ inv[i].tool = "analytics_report"
    /\ Has(inv[i].args, "orderBy")
    /\ Named(inv[i].args.orderBy, "metric") /\ Named(inv[i].args.orderBy, "dimension")
    /\ Len(Request(inv[i]).orderBys) = 1
    /\ Has(Request(inv[i]).orderBys[1], "metric")

\* the dimension and metric names an invocation asks for
InputDimensions(r) ==
  IF r.tool = "quick_insights" THEN Preset(r.args.reportType).dimensions
  ELSE IF Has(r.args, "dimensions") THEN r.args.dimensions ELSE <<>>

InputMetrics(r) ==
  IF r.tool = "quick_insights" THEN Preset(r.args.reportType).metrics
  ELSE IF Has(r.args, "metrics") THEN r.args.metrics ELSE <<"activeUsers">>

Verbatim(wrapped, names) ==
  /\ Len(wrapped) = Len(names)
  /\ \A k \in 1..Len(names) : wrapped[k] = [name |-> names[k]]

\* C6: in the request of analytics_report, realtime_data and quick_insights the
\* dimensions and metrics have the length of the input name lists and their k-th entry
\* is {name: k-th input name}.
C6_NamesVerbatim ==
  \A i \in DOMAIN inv :
    LET r == inv[i] IN
    (Called(r) /\ r.tool \in {"analytics_report", "realtime_data", "quick_insights"}) =>
      /\ Verbatim(Request(r).dimensions, InputDimensions(r))
      /\ Verbatim(Request(r).metrics, InputMetrics(r))

C6_Witness ==
  \E i \in DOMAIN inv :
    /\ Called(inv[i]) /\ inv[i].tool = "analytics_report"
    /\ Has(inv[i].args, "dimensions")
    /\ inv[i].args.dimensions = <<"sessions", "sessions">>
    /\ inv[i].args.metrics = <<"sessions", "country">>
    /\ Request(inv[i]).dimensions = <<[name |-> "sessions"], [name |-> "sessions"]>>
    /\ Request(inv[i]).metrics = <<[name |-> "sessions"], [name |-> "country"]>>

\* an optional input is forwarded under its key, unchanged, exactly when it is set
Forwarded(r, k) ==
  /\ Has(Request(r), k) <=> Has(r.args, k)
  /\ Has(r.args, k) => Request(r)[k] = r.args[k]

\* C7 as stated: dimensionFilter, metricFilter and orderBys are each present exactly
\* when the caller set the corresponding input.
C7_PresentIffSet ==
  \A i \in DOMAIN inv :
    LET r == inv[i] IN
    (Called(r) /\ r.tool = "analytics_report") =>
      /\ Forwarded(r, "dimensionFilter")
      /\ Forwarded(r, "metricFilter")
      /\ Has(Request(r), "orderBys") <=> Has(r.args, "orderBy")

\* C7 amended: dimensionFilter and metricFilter are present exactly when the caller set
\* them and are forwarded unchanged; orderBys is present exactly when the caller set
\* orderBy and it names a metric or a dimension.
C7_OptionalKeys ==
  \A i \in DOMAIN inv :
    LET r == inv[i] IN
    (Called(r) /\ r.tool = "analytics_report") =>
      /\ Forwarded(r, "dimensionFilter")
      /\ Forwarded(r, "metricFilter")
      /\ Has(Request(r), "orderBys") <=>
           (Has(r.args, "orderBy") /\ NamesAField(r.args.orderBy))

C7_Witness ==
  \E i \in DOMAIN inv :
    /\ Called(inv[i]) /\ inv[i].tool = "analytics_report"
    /\ Has(inv[i].args, "dimensionFilter") /\ DOMAIN inv[i].args.dimensionFilter = {}
    /\ Has(Request(inv[i]), "dimensionFilter")
    /\ ~Has(inv[i].args, "metricFilter") /\ ~Has(Request(inv[i]), "metricFilter")
    /\ Has(inv[i].args, "orderBy") /\ ~NamesAField(inv[i].args.orderBy)
    /\ ~Has(Request(inv[i]), "orderBys")

\* C8: realtime_data calls runRealtimeReport with property, dimensions, metrics and
\* limit only (no dateRanges, filters or orderBys); analytics_report and quick_insights
\* call runReport with dateRanges and limit.
C8_RequestShapes ==
  \A i \in DOMAIN inv :
    LET r == inv[i] IN
    /\ (Called(r) /\ r.tool = "realtime_data") =>
         /\ r.calls[1].api = "runRealtimeReport"
         /\ {"property", "dimensions", "metrics"} \subseteq DOMAIN Request(r)
         /\ DOMAIN Request(r) \subseteq {"property", "dimensions", "metrics", "limit"}
    /\ (Called(r) /\ r.tool \in {"analytics_report", "quick_insights"}) =>
         /\ r.calls[1].api = "runReport"
         /\ {"property", "dateRanges", "dimensions", "metrics", "limit"}
              \subseteq DOMAIN Request(r)

C8_Witness ==
  \E i \in DOMAIN inv :
    /\ inv[i].pc = "awaiting" /\ inv[i].tool = "realtime_data"
    /\ Has(inv[i].args, "dimensions") /\ Has(inv[i].args, "limit")
    /\ DOMAIN Request(inv[i]) = {"property", "dimensions", "metrics", "limit"}

\* C9: the request carries the caller's limit unchanged when one is supplied, and
\* otherwise 100 for analytics_report, 50 for realtime_data, 20 for quick_insights.
C9_LimitDefaults ==
  \A i \in DOMAIN inv :
    LET r == inv[i] IN
    (Called(r) /\ r.tool \in {"analytics_report", "realtime_data", "quick_insights"}) =>
      Request(r).limit = IF Has(r.args, "limit") THEN r.args.limit
                         ELSE CASE r.tool = "analytics_report" -> 100
                                [] r.tool = "realtime_data" -> 50
                                [] r.tool = "quick_insights" -> 20

C9_Witness ==
  \E i \in DOMAIN inv :
    /\ Called(inv[i]) /\ inv[i].tool = "analytics_report"
    /\ ~Has(inv[i].args, "limit")
    /\ Request(inv[i]).limit = 100

\* C10: every identifier of the reportType enum has a preset with a dimensions list
\* and a non-empty metrics list, and every quick_insights invocation with a property id
\* has compiled and sent its request from that preset.
C10_PresetLookupTotal ==
  /\ \A t \in ReportTypes :
       /\ Has(ReportConfig(t), "dimensions")
       /\ Has(ReportConfig(t), "metrics")
       /\ Len(ReportConfig(t).metrics) > 0
  /\ \A i \in DOMAIN inv :
       LET r == inv[i] IN
       (HasId(r) /\ r.tool = "quick_insights") =>
         /\ Called(r)
         /\ Len(Request(r).metrics) > 0

C10_Witness ==
  \E i \in DOMAIN inv :
    /\ inv[i].pc = "awaiting" /\ inv[i].tool = "quick_insights"
    /\ inv[i].args.reportType = "device_technology"
    /\ Len(Request(inv[i]).dimensions) = 3
    /\ Len(Request(inv[i]).metrics) = 4

\* the preset part of a request
PresetPart(request) ==
  [k \in DOMAIN request \cap {"dimensions", "metrics", "dimensionFilter", "orderBys"} |->
     request[k]]

\* the quick_insights arguments that ask for reportType with any other property id,
\* date range and limit
SameReportType(reportType) ==
  {[propertyId |-> p, startDate |-> sd, endDate |-> ed, reportType |-> reportType] @@ l :
     p \in PropertyIds \ {""}, sd \in Dates, ed \in Dates, l \in Opt("limit", {7})}

\* C11: the preset part (dimensions, metrics, dimensionFilter, orderBys) of a request
\* sent by quick_insights, after any sequence of invocations, is the preset part of the
\* request compiled for the same reportType with any other property id, date range and
\* limit; for us_states it carries the EXACT filter on country with value
\* "United States".
C11_PresetConstant ==
  \A i \in DOMAIN inv :
    LET r == inv[i] IN
    (Called(r) /\ r.tool = "quick_insights") =>
      /\ \A other \in SameReportType(r.args.reportType) :
           PresetPart(QuickBegin(other).request) = PresetPart(Request(r))
      /\ r.args.reportType = "us_states" =>
           /\ Has(Request(r), "dimensionFilter")
           /\ Request(r).dimensionFilter =
                [filter |-> [fieldName |-> "country",
                             stringFilter |-> [matchType |-> "EXACT",
                                               value |-> "United States"]]]

C11_Witness ==
  \E i \in DOMAIN inv :
    /\ Called(inv[i]) /\ inv[i].tool = "quick_insights"
    /\ inv[i].args.reportType = "us_states"
    /\ inv[i].args.propertyId = "9"
    /\ inv[i].args.startDate = "2024-01-31"
    /\ Has(inv[i].args, "limit")
    /\ Request(inv[i]).property = <<"properties/", "9">>
    /\ Request(inv[i]).dimensionFilter.filter.stringFilter.value = "United States"

\* C12: the request of quick_insights has dimensionFilter, and orderBys, exactly when
\* the preset of its reportType defines it, and then the preset's own value; it has no
\* metricFilter and no key besides property, dateRanges, dimensions, metrics, limit,
\* dimensionFilter and orderBys, whatever filter or ordering the caller sent along.
C12_PresetVerbatim ==
  \A i \in DOMAIN inv :
    LET r == inv[i] IN
    (Called(r) /\ r.tool = "quick_insights") =>
      /\ \A k \in {"dimensionFilter", "orderBys"} :
           /\ Has(Request(r), k) <=> Has(Preset(r.args.reportType), k)
           /\ Has(Request(r), k) => Request(r)[k] = Preset(r.args.reportType)[k]
      /\ ~Has(Request(r), "metricFilter")
      /\ DOMAIN Request(r) \subseteq
           {"property", "dateRanges", "dimensions", "metrics", "limit", "dimensionFilter",
            "orderBys"}

C12_Witness ==
  \E i \in DOMAIN inv :
    /\ Called(inv[i]) /\ inv[i].tool = "quick_insights"
    /\ inv[i].args.reportType = "conversions"
    /\ Has(inv[i].args, "dimensionFilter") /\ inv[i].args.dimensionFilter = CountryFilter
    /\ Has(inv[i].args, "metricFilter") /\ Has(inv[i].args, "orderBy")
    /\ Request(inv[i]).dimensionFilter.filter.fieldName = "eventName"
    /\ ~Has(Request(inv[i]), "orderBys")

\* the invocation's getMetadata call resolved with a document and it has returned
GotDocument(r) ==
  /\ r.pc = "returned" /\ r.backend # <<>> /\ r.backend[1].settled = "resolved"
  /\ r.tool \in {"get_metadata", "search_metadata"}
  /\ r.backend[1].response # <<>>

Document(r) == r.backend[1].response[1]

\* the lower-cased query is a substring of the lower-cased apiName, uiName or
\* description of descriptor d
TextMatch(d, query) ==
  \E f \in {"apiName", "uiName", "description"} \cap DOMAIN d :
    Includes(ToLowerCase(d[f]), ToLowerCase(query))

\* C13: search_metadata without a category returns, for each list it reports and the
\* document has, the descriptors of which the lower-cased query is a substring of the
\* lower-cased apiName, uiName or description, in document order, and no others; a
\* descriptor lacking fields does not turn the result into an error payload.
C13_TextMatch ==
  \A i \in DOMAIN inv :
    LET r == inv[i] IN
    (GotDocument(r) /\ r.tool = "search_metadata" /\ ~Has(r.args, "category")) =>
      /\ ~Has(ResultText(r), "error")
      /\ \A k \in DOMAIN ResultText(r) \cap DOMAIN Document(r) :
           ResultText(r)[k] =
             SelectSeq(Document(r)[k], LAMBDA d : TextMatch(d, r.args.query))

C13_Witness ==
  \E i \in DOMAIN inv :
    /\ GotDocument(inv[i]) /\ inv[i].tool = "search_metadata"
    /\ ~Has(inv[i].args, "category")
    /\ inv[i].args.query = Country
    /\ Document(inv[i]) = DocPair
    /\ ResultText(inv[i]).dimensions = <<[apiName |-> Country]>>

\* C14 as stated: search_metadata with the empty query, type 'dimensions' and category
\* 'USER' returns exactly the dimension descriptors of the document whose category is
\* 'USER', whatever other fields they have.
C14_EmptyQueryListsCategory ==
  \A i \in DOMAIN inv :
    LET r == inv[i] IN
    (/\ GotDocument(r) /\ r.tool = "search_metadata"
     /\ r.args.query = <<>>
     /\ Has(r.args, "type") /\ r.args.type = "dimensions"
     /\ Has(r.args, "category") /\ r.args.category = "USER"
     /\ Has(Document(r), "dimensions")) =>
      ResultText(r).dimensions =
        SelectSeq(Document(r).dimensions,
                  LAMBDA d : Has(d, "category") /\ d.category = "USER")

\* every descriptor the invocation returned satisfies P
AllReturned(r, P(_)) ==
  \A k \in DOMAIN ResultText(r) : \A n \in 1..Len(ResultText(r)[k]) : P(ResultText(r)[k][n])

\* the descriptor's category is the given one, letter for letter
InCategory(d, category) == Has(d, "category") /\ d.category = category

\* C15 as stated: whenever search_metadata is given a category, every descriptor it
\* returns has exactly that category and matches the query text.
C15_GivenCategoryFilters ==
  \A i \in DOMAIN inv :
    LET r == inv[i] IN
    (GotDocument(r) /\ r.tool = "search_metadata" /\ Has(r.args, "category")) =>
      AllReturned(r, LAMBDA d : InCategory(d, r.args.category) /\ TextMatch(d, r.args.query))

\* C15 amended: whenever search_metadata is given a non-empty category, the descriptors
\* it returns are those of the document that have exactly that category (no case
\* folding) and match the query text; the empty string as category filters nothing.
C15_NonEmptyCategoryFilters ==
  \A i \in DOMAIN inv :
    LET r == inv[i] IN
    (GotDocument(r) /\ r.tool = "search_metadata" /\ Has(r.args, "category")) =>
      \A k \in DOMAIN ResultText(r) \cap DOMAIN Document(r) :
        ResultText(r)[k] =
          SelectSeq(Document(r)[k],
                    LAMBDA d : /\ TextMatch(d, r.args.query)
                               /\ r.args.category # "" => InCategory(d, r.args.category))

C15_Witness ==
  \E i \in DOMAIN inv :
    /\ GotDocument(inv[i]) /\ inv[i].tool = "search_metadata"
    /\ Has(inv[i].args, "category") /\ inv[i].args.category = "USER"
    /\ inv[i].args.query = Country
    /\ Document(inv[i]) = DocSparse
    /\ TextMatch(DocSparse.dimensions[3], Country)
    /\ DocSparse.dimensions[3].category = "user"
    /\ ResultText(inv[i]).dimensions = <<>>

\* the lists a type selects; an unset type is 'both'
SelectedKeys(args) ==
  LET type == IF Has(args, "type") THEN args.type ELSE "both" IN
  CASE type = "both" -> {"dimensions", "metrics"}
    [] type = "dimensions" -> {"dimensions"}
    [] type = "metrics" -> {"metrics"}

\* C16: the result of get_metadata and of search_metadata has exactly the keys its type
\* selects ('both', also when unset: dimensions and metrics; otherwise the one named);
\* a selected list the document lacks is the empty list; a selected list holds
\* descriptors of the document's list of the same name only, and for get_metadata all
\* of them.
C16_SelectedLists ==
  \A i \in DOMAIN inv :
    LET r == inv[i] IN
    GotDocument(r) =>
      /\ DOMAIN ResultText(r) = SelectedKeys(r.args)
      /\ \A k \in SelectedKeys(r.args) :
           IF Has(Document(r), k)
           THEN /\ \A n \in 1..Len(ResultText(r)[k]) :
                     \E m \in 1..Len(Document(r)[k]) :
                       ResultText(r)[k][n] = Document(r)[k][m]
                /\ r.tool = "get_metadata" => ResultText(r)[k] = Document(r)[k]
           ELSE ResultText(r)[k] = <<>>

C16_Witness ==
  \E i \in DOMAIN inv :
    /\ GotDocument(inv[i]) /\ inv[i].tool = "search_metadata"
    /\ Has(inv[i].args, "type") /\ inv[i].args.type = "dimensions"
    /\ Document(inv[i]) = DocMetricsOnly
    /\ ResultText(inv[i]) = [dimensions |-> <<>>]

\* C17: every backend request of an invocation names the property the caller supplied,
\* 'properties/<propertyId>' (with '/metadata' for getMetadata), and an invocation
\* without a propertyId (unset or empty) issues no backend request at all, also when
\* GA_PROPERTY_ID is set in the environment.
C17_CallerPropertyOnly ==
  \A i \in DOMAIN inv :
    LET r == inv[i] IN
    r.pc # "idle" =>
      /\ ~HasId(r) => r.calls = <<>>
      /\ \A n \in 1..Len(r.calls) :
           IF r.calls[n].api = "getMetadata"
           THEN r.calls[n].request.name = <<"properties/", r.args.propertyId, "/metadata">>
           ELSE r.calls[n].request.property = <<"properties/", r.args.propertyId>>

C17_Witness ==
  \E i \in DOMAIN inv :
    /\ defaultPropertyId = <<"456">>
    /\ inv[i].pc = "returned" /\ inv[i].tool = "analytics_report"
    /\ ~Has(inv[i].args, "propertyId")
    /\ inv[i].calls = <<>>
    /\ ResultText(inv[i]) = GuidanceText

\* what a handler does with args when no other invocation is in progress: the backend
\* calls it issues, and the result it returns once its call has settled as backend
AloneCalls(tool, args) ==
  IF Has(args, "propertyId") /\ args.propertyId # "" /\ Begin(tool, args).kind = "call"
  THEN <<[api |-> Begin(tool, args).api, request |-> Begin(tool, args).request]>>
  ELSE <<>>

AloneResult(tool, args, backend) ==
  IF ~(Has(args, "propertyId") /\ args.propertyId # "")
  THEN PropertyIdRequired(tool)
  ELSE ExecuteWithErrorHandling(
         IF backend = <<>> THEN Begin(tool, args)
         ELSE IF backend[1].settled = "resolved"
              THEN Finish(tool, args, backend[1].response)
              ELSE [kind |-> "throw", error |-> backend[1].error],
         args.propertyId, serviceAccountEmail).value

\* C18: with several invocations in progress, a step changes one invocation only and
\* leaves the start-up state (service account, default property) alone, and after every
\* step each invocation has sent the request, and returned the result, that its own
\* arguments and its own backend outcome give when it runs alone.
C18_NoInterference ==
  [][/\ Cardinality({i \in DOMAIN inv : inv'[i] # inv[i]}) <= 1
     /\ serviceAccountEmail' = serviceAccountEmail
     /\ defaultPropertyId' = defaultPropertyId
     /\ \A i \in DOMAIN inv :
          inv'[i].pc # "idle" =>
            /\ inv'[i].pc # "threw"
            /\ inv'[i].calls = AloneCalls(inv'[i].tool, inv'[i].args)
            /\ inv'[i].pc = "returned" =>
                 inv'[i].result =
                   AloneResult(inv'[i].tool, inv'[i].args, inv'[i].backend)]_vars

C18_Witness ==
  \E i, j \in DOMAIN inv :
    /\ i # j
    /\ inv[i].pc = "awaiting" /\ inv[i].tool = "analytics_report"
    /\ inv[i].args.propertyId = "123"
    /\ Rejected(inv[j]) /\ inv[j].tool = "analytics_report"
    /\ inv[j].args.propertyId = "9"
    /\ ResultText(inv[j]).propertyId = "9"
    /\ Request(inv[i]).property = <<"properties/", "123">>

\* C20: two invocations of the same tool with the same arguments have compiled the
\* same backend request, whether one of them has already returned and whatever the
\* other invocation slot went through in between.
C20_SameQuerySameRequest ==
  \A i, j \in DOMAIN inv :
    (/\ Called(inv[i]) /\ Called(inv[j])
     /\ inv[i].tool = inv[j].tool
     /\ inv[i].args = inv[j].args) =>
      inv[i].calls = inv[j].calls

C20_Witness ==
  \E i, j \in DOMAIN inv :
    /\ i # j
    /\ inv[i].pc = "returned" /\ Called(inv[i]) /\ inv[j].pc = "awaiting"
    /\ inv[i].tool = "quick_insights" /\ inv[j].tool = "quick_insights"
    /\ inv[i].args = inv[j].args
    /\ inv[i].args.reportType = "us_states"
    /\ Request(inv[i]) = Request(inv[j])

\* C19: an invocation with a non-empty propertyId holds a result only when its backend
\* call has settled, and got there from awaiting that call; the step in which the call
\* settles is the step in which the invocation returns, with one tool result and
\* without another call; the only step of an invocation that has returned is the
\* delivery of that result, after which nothing of the invocation is left.
C19_ReturnAfterCompletion ==
  [][\A i \in DOMAIN inv :
       /\ (inv'[i].pc = "returned" /\ HasId(inv'[i])) =>
            /\ inv'[i].backend # <<>>
            /\ inv[i].pc \in {"awaiting", "returned"}
       /\ (inv[i].pc = "awaiting" /\ inv'[i] # inv[i]) =>
            /\ inv'[i].pc = "returned"
            /\ IsToolResult(inv'[i].result)
            /\ inv'[i].calls = inv[i].calls
       /\ (inv[i].pc = "returned" /\ inv'[i] # inv[i]) => inv'[i] = Idle]_vars

C19_Witness ==
  \E i \in DOMAIN inv :
    /\ inv[i].pc = "returned" /\ HasId(inv[i])
    /\ inv[i].tool = "realtime_data"
    /\ inv[i].backend # <<>> /\ inv[i].backend[1].settled = "resolved"
    /\ Len(inv[i].calls) = 1
    /\ IsToolResult(inv[i].result)

\* C21 as stated: the limit of every request sent by analytics_report, realtime_data
\* and quick_insights is a positive integer.
C21_LimitPositive ==
  \A i \in DOMAIN inv :
    LET r == inv[i] IN
    (Called(r) /\ r.tool \in {"analytics_report", "realtime_data", "quick_insights"}) =>
      (Has(Request(r), "limit") => Request(r).limit \in Nat \ {0})

\* the day a date of Dates falls on, counted from 2024-01-01
DayOf(date) ==
  CASE date = "2024-01-01" -> 1
    [] date = "2024-01-31" -> 31

\* C22 as stated: every request sent by analytics_report or quick_insights has exactly
\* one date range, made of the caller's startDate and endDate, and its start is not
\* after its end.
C22_StartNotAfterEnd ==
  \A i \in DOMAIN inv :
    LET r == inv[i] IN
    (Called(r) /\ r.tool \in {"analytics_report", "quick_insights"}) =>
      /\ Request(r).dateRanges =
           <<[startDate |-> r.args.startDate, endDate |-> r.args.endDate]>>
      /\ DayOf(Request(r).dateRanges[1].startDate) <= DayOf(Request(r).dateRanges[1].endDate)

\* the desc of an orderBy input: true when the caller did not set it
InputDesc(orderBy) == IF Has(orderBy, "desc") THEN orderBy.desc ELSE TRUE

\* C23: for an orderBy that names a metric, analytics_report sends the one metric rule
\* for that metric, whether or not a dimension is named too; for an orderBy that names a
\* dimension and no metric it sends the one dimension rule; the rule's desc is the
\* input's desc, true when unset.
C23_OrderByLowering ==
  \A i \in DOMAIN inv :
    LET r == inv[i] IN
    (Called(r) /\ r.tool = "analytics_report" /\ Has(r.args, "orderBy")) =>
      /\ Named(r.args.orderBy, "metric") =>
           /\ Has(Request(r), "orderBys")
           /\ Request(r).orderBys =
                <<[metric |-> [metricName |-> r.args.orderBy.metric],
                   desc |-> InputDesc(r.args.orderBy)]>>
      /\ (~Named(r.args.orderBy, "metric") /\ Named(r.args.orderBy, "dimension")) =>
           /\ Has(Request(r), "orderBys")
           /\ Request(r).orderBys =
                <<[dimension |-> [dimensionName |-> r.args.orderBy.dimension],
                   desc |-> InputDesc(r.args.orderBy)]>>

C23_Witness ==
  \E i \in DOMAIN inv :
    /\ Called(inv[i]) /\ inv[i].tool = "analytics_report"
    /\ Has(inv[i].args, "orderBy")
    /\ inv[i].args.orderBy = [dimension |-> "country", metric |-> "sessions"]
    /\ Request(inv[i]).orderBys = <<[metric |-> [metricName |-> "sessions"], desc |-> TRUE]>>

\* orderBys is one descending metric rule on one of the names of metrics
OrdersByOwnMetric(orderBys, metrics) ==
  /\ Len(orderBys) = 1
  /\ DOMAIN orderBys[1] = {"metric", "desc"}
  /\ orderBys[1].desc = TRUE
  /\ DOMAIN orderBys[1].metric = {"metricName"}
  /\ \E k \in 1..Len(metrics) : metrics[k] = [name |-> orderBys[1].metric.metricName]

\* C24: every preset of the catalog that defines an ordering orders by one descending
\* metric rule on one of its own metrics, and every request of quick_insights that has
\* orderBys orders by one descending rule on a metric the request asks for.
C24_OrdersByOwnMetric ==
  /\ \A t \in ReportTypes :
       Has(ReportConfig(t), "orderBys") =>
         OrdersByOwnMetric(ReportConfig(t).orderBys, WrapNames(ReportConfig(t).metrics))
  /\ \A i \in DOMAIN inv :
       LET r == inv[i] IN
       (Called(r) /\ r.tool = "quick_insights" /\ Has(Request(r), "orderBys")) =>
         OrdersByOwnMetric(Request(r).orderBys, Request(r).metrics)

C24_Witness ==
  \E i \in DOMAIN inv :
    /\ Called(inv[i]) /\ inv[i].tool = "quick_insights"
    /\ inv[i].args.reportType = "traffic_sources"
    /\ Request(inv[i]).orderBys = <<[metric |-> [metricName |-> "sessions"], desc |-> TRUE]>>
    /\ Request(inv[i]).metrics[1] = [name |-> "sessions"]

\* check k of the run went well: its call resolved with a response
CheckSucceeded(k) ==
  test.settled[k].settled = "resolved" /\ test.settled[k].response # <<>>

ChecksSucceeded ==
  Cardinality({k \in 1..5 : k <= Len(test.settled) /\ CheckSucceeded(k)})

Printed(line) == \E n \in 1..Len(test.out) : test.out[n].line = line

SummaryReached == Printed("ALL TESTS PASSED") \/ Printed("tests passed")

\* report, realtime, overview, get-metadata, search-metadata
IsCheck(k, call) ==
  CASE k = 1 -> call.api = "runReport" /\ call.request.limit = 10
    [] k = 2 -> call.api = "runRealtimeReport"
    [] k = 3 -> call.api = "runReport" /\ Len(call.request.metrics) = 5
    [] k = 4 -> call.api = "getMetadata"
    [] k = 5 -> call.api = "getMetadata"

\* C25: without a property id (no truthy argument, no GA_PROPERTY_ID) the script makes
\* no backend call and exits with code 1. With one, its k-th call (k <= 5) is the k-th
\* of report, realtime, overview, get-metadata, search-metadata, a call is issued only
\* when all earlier ones have settled, and as long as fewer than five have settled,
\* however they ended, the next one is awaited; the summary is printed exactly when five
\* have settled, and then testsPassed is the number of the five that succeeded and the
\* all-passed summary is printed exactly when that number is five.
C25_FiveChecksInOrder ==
  test.pc # "start" =>
    IF ~Truthy(test.argv, 2) /\ defaultPropertyId = <<>>
    THEN test.pc = "exited" /\ test.exit = 1 /\ test.calls = <<>>
    ELSE /\ test.pc \in {"awaiting", "returned"}
         /\ Len(test.calls) = Len(test.settled) + (IF test.pc = "awaiting" THEN 1 ELSE 0)
         /\ \A k \in 1..Len(test.calls) : k <= 5 => IsCheck(k, test.calls[k])
         /\ Len(test.settled) < 5 => test.pc = "awaiting"
         /\ SummaryReached <=> Len(test.settled) >= 5
         /\ SummaryReached =>
              /\ test.testsPassed = ChecksSucceeded
              /\ test.testsPassed \in 0..5
              /\ Printed("ALL TESTS PASSED") <=> ChecksSucceeded = 5
              /\ Printed("ALL TESTS PASSED") # Printed("tests passed")

C25_Witness ==
  /\ test.pc = "returned"
  /\ Len(test.calls) = 5 /\ Len(test.settled) = 5
  /\ test.settled[1].settled = "rejected"
  /\ test.settled[4].settled = "resolved" /\ test.settled[4].response = <<>>
  /\ CheckSucceeded(2) /\ CheckSucceeded(3) /\ CheckSucceeded(5)
  /\ test.testsPassed = 3
  /\ Printed("tests passed") /\ ~Printed("ALL TESTS PASSED")

====
